---- MODULE Spec2Model ----
(***************************************************************************)
(* Chat session orchestration of the Mochi backend                         *)
(* (router/chat.py, router/chats.py, models/chat.py).                      *)
(*                                                                         *)
(* The document store holds three collections: personas, chat_sessions     *)
(* and chat_messages.  Each POST /chat/stream request is one exchange; an  *)
(* exchange is a coroutine that is suspended at every awaited store call   *)
(* and at every chunk of the model stream, so the steps of concurrent      *)
(* exchanges interleave at exactly those points.  One action below is one  *)
(* awaited operation taking effect, followed by the synchronous code that  *)
(* runs until the next await is issued.                                    *)
(***************************************************************************)
EXTENDS Integers, Sequences, FiniteSets, TLC

(* ------------------------------ bounds --------------------------------- *)
NumExchanges == 2      \* POST /chat/stream requests served in one run
MaxChunks    == 2      \* chunks one model stream may produce
MaxPersonas  == 1      \* documents of the personas collection
MaxMessageLen == 33    \* longest first message of the title runs

(* ------------------------- program constants --------------------------- *)
TitleLen == 30         \* first_message[:30]

Exchanges == 1..NumExchanges
Users     == {"A", "B"}
Messages  == {"Hello there, I had a very rough day"}
\* The reply of the model provider, cut into chunks; the first chunk may also
\* arrive empty.
Reply     == <<"I'm", " here", " for you.">>
Chunks(k) ==
    (IF k = 1 THEN {""} ELSE {}) \cup {Reply[((k - 1) % Len(Reply)) + 1]}
\* The first messages of the title runs: every prefix of one text up to
\* MaxMessageLen characters, the empty message included.
LongMessage   == "Hello there, I had a rough day at work today, can we talk?"
TitleMessages == {SubSeq(LongMessage, 1, n) : n \in 0..MaxMessageLen}

(* --------------------------- identifiers ------------------------------- *)
(* An identifier string of a request.  form "none" is an absent (None)     *)
(* field, "malformed" a string that is neither a catalog key nor 24 hex    *)
(* digits, "predefined" a key of PREDEFINED_CHARACTERS, "hex" a string of  *)
(* 24 hex digits naming ObjectId oid, spelled in lower case (upper FALSE)  *)
(* or with upper-case digits (upper TRUE).                                 *)
NoneId      == [form |-> "none",       oid |-> 0, upper |-> FALSE]
MalformedId == [form |-> "malformed",  oid |-> 0, upper |-> FALSE]
Doraemon    == [form |-> "predefined", oid |-> 0, upper |-> FALSE]
HexId(n, u) == [form |-> "hex",        oid |-> n, upper |-> u]

PREDEFINED_CHARACTERS == {Doraemon}

\* bson.ObjectId.is_valid(s): 24 hex digits, in either case
IsValidObjectId(s) == s.form = "hex"
\* bson.ObjectId(s): parsing is case-insensitive
ObjectId(s) == s.oid
\* str(ObjectId): always the lower-case spelling
Str(oid) == HexId(oid, FALSE)
\* truthiness of an Optional[str] field
Truthy(s) == s.form # "none"

VARIABLES
    personas,          \* db["personas"]: _id is the index
    chat_sessions,     \* db["chat_sessions"]: _id is the index
    chat_messages,     \* db["chat_messages"], in insertion order
    now,               \* the last reading of datetime.now()
    pc,                \* where each exchange is suspended
    payload,           \* ChatRequest: the fields read after routing
    user_id,           \* credentials.decoded["sub"] of each exchange
    session,           \* the exchange's ChatSession object
    persona_details,   \* the resolved persona
    chat_history,      \* the history handed to the model
    message,           \* the MessageInDB built and awaiting insert_one
    touch_time,        \* datetime.now() evaluated for the $set
    ai_response_full,  \* the accumulator of stream_generator
    n_chunks,          \* chunks the model stream has produced
    out,               \* chunks delivered to the caller, in order
    error,             \* the exception that ended the exchange
    wlog               \* history: the store writes of each exchange

store == <<personas, chat_sessions, chat_messages>>
vars  == <<personas, chat_sessions, chat_messages, now, pc, payload, user_id,
           session, persona_details, chat_history, message, touch_time,
           ai_response_full, n_chunks, out, error, wlog>>

(* ------------------------------ models --------------------------------- *)
\* ChatSession before it has an id
NoSession == [id |-> 0, user_id |-> "", title |-> "", persona_id |-> NoneId,
              last_updated |-> 0]
\* MessageInDB(session_id=str(session_id), role=role, parts=[content]);
\* timestamp is default_factory=datetime.now, read when the object is built
MessageInDB(session_id, role, content, ts) ==
    [session_id |-> session_id, role |-> role, parts |-> <<content>>,
     timestamp |-> ts]
NoMessage == MessageInDB(NoneId, "", "", 0)

NoPersona == [kind |-> "none", oid |-> 0, user_id |-> "", is_public |-> FALSE]

NoError == [type |-> "none", status_code |-> "", detail |-> ""]
HTTPException(code, detail) ==
    [type |-> "HTTPException", status_code |-> code, detail |-> detail]
StoreError    == [type |-> "StoreError",    status_code |-> "", detail |-> ""]
ProviderError == [type |-> "ProviderError", status_code |-> "", detail |-> ""]
ConfigMissing == [type |-> "ConfigError",   status_code |-> "", detail |-> ""]
Cancelled     == [type |-> "Cancelled",     status_code |-> "", detail |-> ""]

MissingPersonaErr == HTTPException("400", "persona_id is required for a new chat.")
InvalidPersonaErr == HTTPException("400", "Invalid custom persona ID format.")
PersonaNotFound   == HTTPException("404", "Custom persona not found.")
SessionNotFound   == HTTPException("404", "Chat session not found.")

\* the text of error_stream() in the outer handler
ErrorText(e) ==
    IF e.type = "HTTPException"
    THEN "Error " \o e.status_code \o ": " \o e.detail
    ELSE "An unexpected server error occurred."
ConfigErrorText == "Configuration error: Server API key is missing."
\* the text stream_generator yields from its except clause
SentinelText == "An error occurred while processing your request."

(* ----------------------------- helpers --------------------------------- *)
\* _get_persona_details: the catalog first, then the personas collection
GetPersonaDetails(persona_id) ==
    IF ~Truthy(persona_id)
    THEN [error   |-> HTTPException("400", "Persona ID is required for a new chat."),
          details |-> NoPersona]
    ELSE IF persona_id \in PREDEFINED_CHARACTERS
    THEN [error   |-> NoError,
          details |-> [kind |-> "predefined", oid |-> 0, user_id |-> "",
                       is_public |-> TRUE]]
    ELSE IF ~IsValidObjectId(persona_id)
    THEN [error |-> InvalidPersonaErr, details |-> NoPersona]
    ELSE IF ObjectId(persona_id) \notin DOMAIN personas
    THEN [error |-> PersonaNotFound, details |-> NoPersona]
    ELSE [error   |-> NoError,
          details |-> [kind |-> "custom", oid |-> ObjectId(persona_id),
                       user_id   |-> personas[ObjectId(persona_id)].user_id,
                       is_public |-> personas[ObjectId(persona_id)].is_public]]

\* Title with the test of line 60 as len(first_message) >= 30: a message of
\* exactly 30 characters is given the ellipsis too
TitleCutsAtThirty(first_message) ==
    IF Len(first_message) >= TitleLen
    THEN SubSeq(first_message, 1, TitleLen) \o "..."
    ELSE first_message

\* Title that never exceeds 30 characters: a message of 30 characters or more
\* keeps its first 27 and is given the ellipsis
TitleFitsThirty(first_message) ==
    IF Len(first_message) >= TitleLen
    THEN SubSeq(first_message, 1, TitleLen - 3) \o "..."
    ELSE first_message

\* _create_new_chat, line 60: the title of a new session
Title(first_message) ==
    IF Len(first_message) > TitleLen
    THEN SubSeq(first_message, 1, TitleLen) \o "..."
    ELSE first_message

\* FindSession without the user_id filter: find_one({"_id": oid})
FindSessionOfAnyUser(oid, user) ==
    IF oid \in DOMAIN chat_sessions THEN {oid} ELSE {}

\* find_one({"_id": oid, "user_id": user}) on chat_sessions
FindSession(oid, user) ==
    IF oid \in DOMAIN chat_sessions /\ chat_sessions[oid].user_id = user
    THEN {oid} ELSE {}

\* cursor.sort("timestamp", 1): ascending, equal timestamps in store order
RECURSIVE InsertByTimestamp(_, _)
InsertByTimestamp(sorted, m) ==
    IF sorted = <<>> THEN <<m>>
    ELSE IF sorted[Len(sorted)].timestamp <= m.timestamp
         THEN Append(sorted, m)
         ELSE Append(InsertByTimestamp(SubSeq(sorted, 1, Len(sorted) - 1), m),
                     sorted[Len(sorted)])
RECURSIVE SortByTimestamp(_)
SortByTimestamp(msgs) ==
    IF msgs = <<>> THEN <<>>
    ELSE InsertByTimestamp(SortByTimestamp(SubSeq(msgs, 1, Len(msgs) - 1)),
                           msgs[Len(msgs)])

\* find({"session_id": s}).sort("timestamp", 1): s is compared as a string
FindMessages(s) ==
    SortByTimestamp(SelectSeq(chat_messages, LAMBDA m : m.session_id = s))

\* datetime.now(): successive readings of the clock increase
ClockReadings == {now + 1}

(* ------------------------------- Init ---------------------------------- *)
\* The personas collection is only read here: the chat endpoints never write
\* it, and create_persona (personas.py:44-55) raises on persona_data.greeting,
\* a field CreatePersonaRequest does not have, before it reaches insert_one.
\* The collection holds the documents written earlier.  The chat endpoints
\* read neither the owner nor is_public of a persona, so the stored personas
\* are the private personas of the user called "A".  The other collections
\* start empty.
PersonaDocs == [user_id : {"A"}, is_public : {FALSE}]

Init ==
    /\ personas \in [1..MaxPersonas -> PersonaDocs]
    /\ chat_sessions = <<>>
    /\ chat_messages = <<>>
    /\ now = 0
    /\ pc = [e \in Exchanges |-> "idle"]
    /\ payload = [e \in Exchanges |->
                    [message |-> "", session_id |-> NoneId]]
    /\ user_id = [e \in Exchanges |-> ""]
    /\ session = [e \in Exchanges |-> NoSession]
    /\ persona_details = [e \in Exchanges |-> NoPersona]
    /\ chat_history = [e \in Exchanges |-> <<>>]
    /\ message = [e \in Exchanges |-> NoMessage]
    /\ touch_time = [e \in Exchanges |-> 0]
    /\ ai_response_full = [e \in Exchanges |-> ""]
    /\ n_chunks = [e \in Exchanges |-> 0]
    /\ out = [e \in Exchanges |-> <<>>]
    /\ error = [e \in Exchanges |-> NoError]
    /\ wlog = [e \in Exchanges |-> <<>>]

(* ------------------------- POST /chat/stream --------------------------- *)
\* The identifiers a request may carry: none, a malformed one, every stored
\* document's in both spellings, and one that names no document.
SessionIdInputs ==
    {NoneId, MalformedId, HexId(Len(chat_sessions) + 1, FALSE)}
        \cup {HexId(n, u) : n \in 1..Len(chat_sessions), u \in BOOLEAN}
\* persona ids are drawn in the lower-case spelling
PersonaIdInputs ==
    {NoneId, MalformedId, Doraemon}
        \cup {HexId(n, FALSE) : n \in 1..(Len(personas) + 1)}

\* Exchanges are numbered in the order their requests arrive.
Arrives(e) == pc[e] = "idle" /\ (IF e = 1 THEN TRUE ELSE pc[e - 1] # "idle")

\* Route that takes only the lower-case spelling of an id for valid
RouteLowerCaseOnly(sid) ==
    IF Truthy(sid) /\ IsValidObjectId(sid) /\ ~sid.upper THEN "existing"
    ELSE "new"

\* line 112: which path a request takes
Route(sid) ==
    IF Truthy(sid) /\ IsValidObjectId(sid) THEN "existing" ELSE "new"

\* The request of an exchange.  payload.session_id is read again only on the
\* existing-session path (line 128) and payload.persona_id is not read again:
\* the chat runs keep session_id only on that path; the routing runs (kept)
\* keep the request as it was sent.
Request(e, u, m, sid, pid, kept) ==
    /\ payload' = [payload EXCEPT ![e] =
                     IF kept
                     THEN [message |-> m, session_id |-> sid, persona_id |-> pid]
                     ELSE [message |-> m,
                           session_id |-> IF Route(sid) = "existing" THEN sid
                                          ELSE NoneId]]
    /\ user_id' = [user_id EXCEPT ![e] = u]

\* lines 179-186: an exception before the StreamingResponse of the generator
\* is returned is answered with error_stream()
RaiseEarly(e, err) ==
    /\ pc' = [pc EXCEPT ![e] = "error_stream"]
    /\ error' = [error EXCEPT ![e] = err]
    /\ out' = [out EXCEPT ![e] = <<ErrorText(err)>>]

\* lines 173-175: an Exception inside stream_generator yields the sentinel
RaiseInStream(e, err) ==
    /\ pc' = [pc EXCEPT ![e] = "stream_failed"]
    /\ error' = [error EXCEPT ![e] = err]
    /\ out' = [out EXCEPT ![e] = Append(out[e], SentinelText)]

\* lines 98-101: GOOGLE_API_KEY is not set; the handler returns before it
\* reads the request
ServeConfigError(e) ==
    /\ Arrives(e)
    /\ pc' = [pc EXCEPT ![e] = "error_stream"]
    /\ error' = [error EXCEPT ![e] = ConfigMissing]
    /\ out' = [out EXCEPT ![e] = <<ConfigErrorText>>]
    /\ UNCHANGED <<store, now, payload, user_id, session, persona_details,
                   chat_history, message, touch_time, ai_response_full,
                   n_chunks, wlog>>

\* lines 112-125: the session_id is a valid ObjectId; find the session of this
\* user and resolve its persona
RouteExistingKeeping(e, kept) ==
    /\ Arrives(e)
    /\ \E u \in Users, m \in Messages, sid \in SessionIdInputs,
          pid \in PersonaIdInputs, fails \in BOOLEAN :
         /\ Route(sid) = "existing"
         /\ Request(e, u, m, sid, pid, kept)
         /\ IF fails
            THEN /\ RaiseEarly(e, StoreError)
                 /\ UNCHANGED <<session, persona_details>>
            ELSE IF FindSession(ObjectId(sid), u) = {}
            THEN /\ RaiseEarly(e, SessionNotFound)
                 /\ UNCHANGED <<session, persona_details>>
            ELSE LET doc == chat_sessions[ObjectId(sid)]
                     found == [id |-> ObjectId(sid), user_id |-> doc.user_id,
                               title |-> doc.title,
                               persona_id |-> doc.persona_id,
                               last_updated |-> doc.last_updated]
                     r == GetPersonaDetails(found.persona_id)
                 IN  /\ session' = [session EXCEPT ![e] = found]
                     /\ IF r.error # NoError
                        THEN /\ RaiseEarly(e, r.error)
                             /\ UNCHANGED persona_details
                        ELSE /\ persona_details' =
                                  [persona_details EXCEPT ![e] = r.details]
                             /\ pc' = [pc EXCEPT ![e] = "load_history"]
                             /\ UNCHANGED <<error, out>>
    /\ UNCHANGED <<store, now, chat_history, message, touch_time,
                   ai_response_full, n_chunks, wlog>>

\* RouteExistingKeeping for the chat runs
RouteExisting(e) == RouteExistingKeeping(e, FALSE)

\* lines 128-129 and 81-85: read the history, then build the user message
LoadHistory(e) ==
    /\ pc[e] = "load_history"
    /\ \E fails \in BOOLEAN, t \in ClockReadings :
         IF fails
         THEN /\ RaiseEarly(e, StoreError)
              /\ UNCHANGED <<chat_history, message, now>>
         ELSE /\ chat_history' =
                   [chat_history EXCEPT ![e] = FindMessages(payload[e].session_id)]
              /\ now' = t
              /\ message' = [message EXCEPT ![e] =
                    MessageInDB(Str(session[e].id), "user", payload[e].message, t)]
              /\ pc' = [pc EXCEPT ![e] = "save_user"]
              /\ UNCHANGED <<error, out>>
    /\ UNCHANGED <<store, payload, user_id, session, persona_details, touch_time,
                   ai_response_full, n_chunks, wlog>>

\* lines 131-140 and 60-67 for a request whose message is one of texts: no
\* usable session_id; the persona is resolved and the ChatSession object is
\* built
RouteNewFrom(e, texts, kept) ==
    /\ Arrives(e)
    /\ \E u \in Users, m \in texts, sid \in SessionIdInputs,
          pid \in PersonaIdInputs, fails \in BOOLEAN, t \in ClockReadings :
         /\ Route(sid) = "new"
         /\ Request(e, u, m, sid, pid, kept)
         /\ IF ~Truthy(pid)
            THEN /\ RaiseEarly(e, MissingPersonaErr)
                 /\ UNCHANGED <<session, persona_details, now>>
            ELSE IF fails
            THEN /\ RaiseEarly(e, StoreError)
                 /\ UNCHANGED <<session, persona_details, now>>
            ELSE LET r == GetPersonaDetails(pid)
                 IN  IF r.error # NoError
                     THEN /\ RaiseEarly(e, r.error)
                          /\ UNCHANGED <<session, persona_details, now>>
                     ELSE /\ persona_details' =
                               [persona_details EXCEPT ![e] = r.details]
                          /\ now' = t
                          /\ session' = [session EXCEPT ![e] =
                                [id |-> 0, user_id |-> u, title |-> Title(m),
                                 persona_id |-> pid, last_updated |-> t]]
                          /\ pc' = [pc EXCEPT ![e] = "create_session"]
                          /\ UNCHANGED <<error, out>>
    /\ UNCHANGED <<store, chat_history, message, touch_time, ai_response_full,
                   n_chunks, wlog>>

\* RouteNew with the session inserted before the persona is resolved: a
\* request whose persona does not resolve leaves a session behind
RouteNewSessionFirst(e) ==
    /\ Arrives(e)
    /\ \E u \in Users, m \in Messages, sid \in SessionIdInputs,
          pid \in PersonaIdInputs, t \in ClockReadings :
         /\ Route(sid) = "new"
         /\ Request(e, u, m, sid, pid, FALSE)
         /\ IF ~Truthy(pid)
            THEN /\ RaiseEarly(e, MissingPersonaErr)
                 /\ UNCHANGED <<session, persona_details, now, chat_sessions,
                                chat_history, message, wlog>>
            ELSE LET r == GetPersonaDetails(pid)
                     id == Len(chat_sessions) + 1
                     doc == [user_id |-> u, title |-> Title(m),
                             persona_id |-> pid, last_updated |-> t]
                 IN  /\ chat_sessions' = Append(chat_sessions, doc)
                     /\ session' = [session EXCEPT ![e] =
                           [id |-> id, user_id |-> u, title |-> doc.title,
                            persona_id |-> pid, last_updated |-> t]]
                     /\ wlog' = [wlog EXCEPT ![e] =
                           Append(@, [op |-> "create_session", at |-> id])]
                     /\ IF r.error # NoError
                        THEN /\ RaiseEarly(e, r.error)
                             /\ now' = t
                             /\ UNCHANGED <<persona_details, chat_history,
                                            message>>
                        ELSE /\ persona_details' =
                                  [persona_details EXCEPT ![e] = r.details]
                             /\ chat_history' = [chat_history EXCEPT ![e] = <<>>]
                             /\ now' = t + 1
                             /\ message' = [message EXCEPT ![e] =
                                   MessageInDB(Str(id), "user", m, t + 1)]
                             /\ pc' = [pc EXCEPT ![e] = "save_user"]
                             /\ UNCHANGED <<error, out>>
    /\ UNCHANGED <<personas, chat_messages, touch_time, ai_response_full,
                   n_chunks>>

\* RouteNewFrom for the messages of the chat runs
RouteNew(e) == RouteNewFrom(e, Messages, FALSE)

\* the document of a ChatSession, model_dump without the id
SessionDoc(s) ==
    [user_id |-> s.user_id, title |-> s.title, persona_id |-> s.persona_id,
     last_updated |-> s.last_updated]

\* lines 69-75, 142 and 81-85: insert the session, then build the user message
CreateNewChat(e) ==
    /\ pc[e] = "create_session"
    /\ \E fails \in BOOLEAN, t \in ClockReadings :
         IF fails
         THEN /\ RaiseEarly(e, StoreError)
              /\ UNCHANGED <<chat_sessions, session, chat_history, message, now,
                             wlog>>
         ELSE LET id == Len(chat_sessions) + 1
              IN  /\ chat_sessions' = Append(chat_sessions, SessionDoc(session[e]))
                  /\ session' = [session EXCEPT ![e].id = id]
                  /\ chat_history' = [chat_history EXCEPT ![e] = <<>>]
                  /\ now' = t
                  /\ message' = [message EXCEPT ![e] =
                        MessageInDB(Str(id), "user", payload[e].message, t)]
                  /\ wlog' = [wlog EXCEPT ![e] =
                        Append(@, [op |-> "create_session", at |-> id])]
                  /\ pc' = [pc EXCEPT ![e] = "save_user"]
                  /\ UNCHANGED <<error, out>>
    /\ UNCHANGED <<personas, chat_messages, payload, user_id, persona_details,
                   touch_time, ai_response_full, n_chunks>>

\* SaveUserMessage with the insert left out: the stream starts on a user
\* message that is only in memory
SaveUserMessageUnsaved(e) ==
    /\ pc[e] = "save_user"
    /\ chat_history' = [chat_history EXCEPT ![e] = Append(@, message[e])]
    /\ pc' = [pc EXCEPT ![e] = "streaming"]
    /\ UNCHANGED <<store, now, payload, user_id, session, persona_details,
                   message, touch_time, ai_response_full, n_chunks, out, error,
                   wlog>>

\* SaveUserMessage with a retry: an insert that is not acknowledged in time
\* is issued again, and both take effect
SaveUserMessageRetried(e) ==
    /\ pc[e] = "save_user"
    /\ \E retried \in BOOLEAN :
         /\ chat_messages' =
               IF retried
               THEN Append(Append(chat_messages, message[e]), message[e])
               ELSE Append(chat_messages, message[e])
         /\ wlog' = [wlog EXCEPT ![e] =
               IF retried
               THEN Append(Append(@, [op |-> "user_message",
                                      at |-> Len(chat_messages) + 1]),
                           [op |-> "user_message", at |-> Len(chat_messages) + 2])
               ELSE Append(@, [op |-> "user_message",
                               at |-> Len(chat_messages) + 1])]
    /\ chat_history' = [chat_history EXCEPT ![e] = Append(@, message[e])]
    /\ pc' = [pc EXCEPT ![e] = "streaming"]
    /\ UNCHANGED <<personas, chat_sessions, now, payload, user_id, session,
                   persona_details, message, touch_time, ai_response_full,
                   n_chunks, out, error>>

\* lines 86-89 and 146-177: insert the user message, add it to the history,
\* return the streaming response
SaveUserMessage(e) ==
    /\ pc[e] = "save_user"
    /\ \E fails \in BOOLEAN :
         IF fails
         THEN /\ RaiseEarly(e, StoreError)
              /\ UNCHANGED <<chat_messages, chat_history, wlog>>
         ELSE /\ chat_messages' = Append(chat_messages, message[e])
              /\ chat_history' = [chat_history EXCEPT ![e] = Append(@, message[e])]
              /\ wlog' = [wlog EXCEPT ![e] =
                    Append(@, [op |-> "user_message",
                               at |-> Len(chat_messages) + 1])]
              /\ pc' = [pc EXCEPT ![e] = "streaming"]
              /\ UNCHANGED <<error, out>>
    /\ UNCHANGED <<personas, chat_sessions, now, payload, user_id, session,
                   persona_details, message, touch_time, ai_response_full,
                   n_chunks>>

\* StreamChunkWithin that stores every chunk as a model message of its own
\* instead of accumulating the reply
StreamChunkStored(e, limit) ==
    /\ pc[e] = "streaming"
    /\ n_chunks[e] < limit
    /\ \E chunk \in Chunks(n_chunks[e] + 1) :
         /\ out' = [out EXCEPT ![e] = Append(@, chunk)]
         /\ chat_messages' =
               Append(chat_messages,
                      MessageInDB(Str(session[e].id), "model", chunk, now + 1))
    /\ now' = now + 1
    /\ wlog' = [wlog EXCEPT ![e] =
          Append(@, [op |-> "model_message", at |-> Len(chat_messages) + 1])]
    /\ n_chunks' = [n_chunks EXCEPT ![e] = @ + 1]
    /\ UNCHANGED <<personas, chat_sessions, pc, payload, user_id, session,
                   persona_details, chat_history, message, touch_time,
                   ai_response_full, error>>

\* StreamChunkWithin that keeps the chunk in the accumulator and yields
\* nothing until the stream has ended
StreamChunkBuffered(e, limit) ==
    /\ pc[e] = "streaming"
    /\ n_chunks[e] < limit
    /\ \E chunk \in Chunks(n_chunks[e] + 1) :
         ai_response_full' = [ai_response_full EXCEPT ![e] = @ \o chunk]
    /\ n_chunks' = [n_chunks EXCEPT ![e] = @ + 1]
    /\ UNCHANGED <<store, now, pc, payload, user_id, session, persona_details,
                   chat_history, message, touch_time, out, error, wlog>>

\* lines 154-161 for a model stream of at most limit chunks: the stream
\* produces a chunk; it is added to the accumulator and yielded to the caller
StreamChunkWithin(e, limit) ==
    /\ pc[e] = "streaming"
    /\ n_chunks[e] < limit
    /\ \E chunk \in Chunks(n_chunks[e] + 1) :
         /\ ai_response_full' =
               [ai_response_full EXCEPT ![e] = @ \o chunk]
         /\ out' = [out EXCEPT ![e] = Append(@, chunk)]
    /\ n_chunks' = [n_chunks EXCEPT ![e] = @ + 1]
    /\ UNCHANGED <<store, now, pc, payload, user_id, session, persona_details,
                   chat_history, message, touch_time, error, wlog>>

\* StreamChunkWithin for the streams of the chat runs
StreamChunk(e) == StreamChunkWithin(e, MaxChunks)

\* StreamEnd without the test of line 164: the reply is stored even when
\* nothing was accumulated
StreamEndSavesEmpty(e) ==
    /\ pc[e] = "streaming"
    /\ \E t \in ClockReadings :
         /\ now' = t
         /\ message' = [message EXCEPT ![e] =
               MessageInDB(Str(session[e].id), "model", ai_response_full[e], t)]
         /\ pc' = [pc EXCEPT ![e] = "save_model"]
    /\ UNCHANGED <<store, payload, user_id, session, persona_details,
                   chat_history, touch_time, ai_response_full, n_chunks, out,
                   error, wlog>>

\* lines 164-165 and 81-85: the model stream ends; a non-empty reply is built
\* into the model message
StreamEnd(e) ==
    /\ pc[e] = "streaming"
    /\ IF ai_response_full[e] # ""
       THEN \E t \in ClockReadings :
              /\ now' = t
              /\ message' = [message EXCEPT ![e] =
                    MessageInDB(Str(session[e].id), "model",
                                ai_response_full[e], t)]
              /\ pc' = [pc EXCEPT ![e] = "save_model"]
       ELSE /\ pc' = [pc EXCEPT ![e] = "done"]
            /\ UNCHANGED <<now, message>>
    /\ UNCHANGED <<store, payload, user_id, session, persona_details,
                   chat_history, touch_time, ai_response_full, n_chunks, out,
                   error, wlog>>

\* StreamError with the save moved into a finally clause: whatever has been
\* accumulated, even nothing, is stored as the model message
StreamErrorSavesReply(e) ==
    /\ pc[e] = "streaming"
    /\ RaiseInStream(e, ProviderError)
    /\ now' = now + 1
    /\ chat_messages' =
          Append(chat_messages,
                 MessageInDB(Str(session[e].id), "model", ai_response_full[e],
                             now + 1))
    /\ wlog' = [wlog EXCEPT ![e] =
          Append(@, [op |-> "model_message", at |-> Len(chat_messages) + 1])]
    /\ UNCHANGED <<personas, chat_sessions, payload, user_id, session,
                   persona_details, chat_history, message, touch_time,
                   ai_response_full, n_chunks>>

\* StreamError without the yield of line 175: the response just ends
StreamErrorSilent(e) ==
    /\ pc[e] = "streaming"
    /\ pc' = [pc EXCEPT ![e] = "stream_failed"]
    /\ error' = [error EXCEPT ![e] = ProviderError]
    /\ UNCHANGED <<store, now, payload, user_id, session, persona_details,
                   chat_history, message, touch_time, ai_response_full,
                   n_chunks, out, wlog>>

\* lines 154-159 and 173-175: the model stream raises
StreamError(e) ==
    /\ pc[e] = "streaming"
    /\ RaiseInStream(e, ProviderError)
    /\ UNCHANGED <<store, now, payload, user_id, session, persona_details,
                   chat_history, message, touch_time, ai_response_full,
                   n_chunks, wlog>>

\* lines 86-89 and 168-171: insert the model message, then evaluate the
\* arguments of update_one
SaveModelMessage(e) ==
    /\ pc[e] = "save_model"
    /\ \E fails \in BOOLEAN, t \in ClockReadings :
         IF fails
         THEN /\ RaiseInStream(e, StoreError)
              /\ UNCHANGED <<chat_messages, now, touch_time, wlog>>
         ELSE /\ chat_messages' = Append(chat_messages, message[e])
              /\ now' = t
              /\ touch_time' = [touch_time EXCEPT ![e] = t]
              /\ wlog' = [wlog EXCEPT ![e] =
                    Append(@, [op |-> "model_message",
                               at |-> Len(chat_messages) + 1])]
              /\ pc' = [pc EXCEPT ![e] = "touch"]
              /\ UNCHANGED <<error, out>>
    /\ UNCHANGED <<personas, chat_sessions, payload, user_id, session,
                   persona_details, chat_history, message, ai_response_full,
                   n_chunks>>

\* UpdateTimestamp as an update_many filtered on user_id: last_updated is set
\* on every session of the user
UpdateTimestampOfUser(e) ==
    /\ pc[e] = "touch"
    /\ chat_sessions' =
          [i \in DOMAIN chat_sessions |->
              IF chat_sessions[i].user_id = session[e].user_id
              THEN [chat_sessions[i] EXCEPT !.last_updated = touch_time[e]]
              ELSE chat_sessions[i]]
    /\ wlog' = [wlog EXCEPT ![e] =
          Append(@, [op |-> "touch", at |-> session[e].id])]
    /\ pc' = [pc EXCEPT ![e] = "done"]
    /\ UNCHANGED <<personas, chat_messages, now, payload, user_id, session,
                   persona_details, chat_history, message, touch_time,
                   ai_response_full, n_chunks, out, error>>

\* lines 168-171: update_one sets last_updated of the session
UpdateTimestamp(e) ==
    /\ pc[e] = "touch"
    /\ \E fails \in BOOLEAN :
         IF fails
         THEN /\ RaiseInStream(e, StoreError)
              /\ UNCHANGED <<chat_sessions, wlog>>
         ELSE /\ chat_sessions' =
                   [chat_sessions EXCEPT ![session[e].id].last_updated =
                                            touch_time[e]]
              /\ wlog' = [wlog EXCEPT ![e] =
                    Append(@, [op |-> "touch", at |-> session[e].id])]
              /\ pc' = [pc EXCEPT ![e] = "done"]
              /\ UNCHANGED <<error, out>>
    /\ UNCHANGED <<personas, chat_messages, now, payload, user_id, session,
                   persona_details, chat_history, message, touch_time,
                   ai_response_full, n_chunks>>

\* The caller disconnects while the response is streamed: the generator is
\* closed at its suspension point.  CancelledError and GeneratorExit are not
\* Exceptions, so the except clause of line 173 does not run.
Disconnect(e) ==
    /\ pc[e] \in {"streaming", "save_model", "touch"}
    /\ pc' = [pc EXCEPT ![e] = "cancelled"]
    /\ error' = [error EXCEPT ![e] = Cancelled]
    /\ UNCHANGED <<store, now, payload, user_id, session, persona_details,
                   chat_history, message, touch_time, ai_response_full,
                   n_chunks, out, wlog>>

Next ==
    \E e \in Exchanges :
        \/ ServeConfigError(e)
        \/ RouteExisting(e)
        \/ LoadHistory(e)
        \/ RouteNew(e)
        \/ CreateNewChat(e)
        \/ SaveUserMessage(e)
        \/ StreamChunk(e)
        \/ StreamEnd(e)
        \/ StreamError(e)
        \/ SaveModelMessage(e)
        \/ UpdateTimestamp(e)
        \/ Disconnect(e)

Spec == Init /\ [][Next]_vars

(* ----------------------- the title of a new chat ---------------------- *)
\* New chats only, started with first messages of every length up to
\* MaxMessageLen: the requests are routed and their sessions inserted.
TitleNext ==
    \E e \in Exchanges :
        \/ RouteNewFrom(e, TitleMessages, FALSE)
        \/ CreateNewChat(e)

TitleSpec == Init /\ [][TitleNext]_vars

(* ------------------------ one new chat, whole reply ------------------- *)
\* The first request alone, a new chat, with a model stream that may produce
\* the whole of Reply.
ReplyNext ==
    \/ ServeConfigError(1)
    \/ RouteNew(1)
    \/ CreateNewChat(1)
    \/ SaveUserMessage(1)
    \/ StreamChunkWithin(1, Len(Reply))
    \/ StreamEnd(1)
    \/ StreamError(1)
    \/ SaveModelMessage(1)
    \/ UpdateTimestamp(1)
    \/ Disconnect(1)

ReplySpec == Init /\ [][ReplyNext]_vars

(* ------------------------------ routing ------------------------------- *)
\* Requests are routed and served up to the start of the model stream, with
\* every request kept as it was sent.
RoutingNext ==
    \E e \in Exchanges :
        \/ RouteExistingKeeping(e, TRUE)
        \/ LoadHistory(e)
        \/ RouteNewFrom(e, Messages, TRUE)
        \/ CreateNewChat(e)
        \/ SaveUserMessage(e)

RoutingSpec == Init /\ [][RoutingNext]_vars

(* ------------------- GET /chats/{session_id}/messages ------------------ *)
\* get_chat_session_messages: the session is looked up for this user before
\* its messages are listed.  Sessions are never deleted and keep their owner,
\* so the two reads are taken in one state.
GetChatSessionMessages(u, sid) ==
    IF ~IsValidObjectId(sid)
    THEN [error |-> HTTPException("400", "Invalid session ID format"),
          body  |-> <<>>]
    ELSE IF FindSession(ObjectId(sid), u) = {}
    THEN [error |-> HTTPException("404",
              "Chat session not found or you do not have permission to access it"),
          body  |-> <<>>]
    ELSE [error |-> NoError, body |-> FindMessages(sid)]

(* ---------------------------- vocabulary ------------------------------- *)
Range(f) == {f[i] : i \in DOMAIN f}

\* the store writes of exchange e of one kind, as positions
Written(e, op) == {w.at : w \in {x \in Range(wlog[e]) : x.op = op}}

Terminated(e) == pc[e] \in {"done", "error_stream", "stream_failed", "cancelled"}

\* the messages of one session, in insertion order
StoredMessages(oid) ==
    SelectSeq(chat_messages, LAMBDA m : m.session_id = Str(oid))

\* wlog records what the store holds
WlogAgrees ==
    \A e \in Exchanges :
        /\ \A i \in Written(e, "user_message") :
               /\ i \in DOMAIN chat_messages
               /\ chat_messages[i].role = "user"
               /\ chat_messages[i].session_id = Str(session[e].id)
        /\ \A i \in Written(e, "model_message") :
               /\ i \in DOMAIN chat_messages
               /\ chat_messages[i].role = "model"
               /\ chat_messages[i].session_id = Str(session[e].id)
        /\ \A i \in Written(e, "create_session") \cup Written(e, "touch") :
               i \in DOMAIN chat_sessions /\ i = session[e].id
        /\ \A i \in DOMAIN chat_messages :
               \E x \in Exchanges :
                   i \in Written(x, "user_message") \cup Written(x, "model_message")

(* ------------------------------ claims --------------------------------- *)
\* the number of messages of a role among the first k of a listing
CountRole(listing, k, role) ==
    Cardinality({i \in 1..k : listing[i].role = role})

ModelNeverAhead(listing) ==
    \A k \in 0..Len(listing) :
        CountRole(listing, k, "model") <= CountRole(listing, k, "user")

\* C1: under every interleaving of concurrent exchanges, an exchange has
\* inserted its user message before the model stream is started and inserts
\* its model message only after the stream has ended; every model message of
\* a session comes after the user message of the same exchange, in the store
\* and in the listing by timestamp, and no prefix of a session's messages
\* holds more model messages than user messages.
C1_UserMessageFirst ==
    /\ \A e \in Exchanges :
          /\ (pc[e] \in {"streaming", "save_model", "touch"} \/ n_chunks[e] > 0)
                => Written(e, "user_message") # {}
          /\ Written(e, "model_message") # {}
                => pc[e] \in {"touch", "done", "stream_failed", "cancelled"}
          /\ \A j \in Written(e, "model_message") :
                \E i \in Written(e, "user_message") :
                    /\ i < j
                    /\ chat_messages[i].role = "user"
                    /\ chat_messages[j].role = "model"
                    /\ chat_messages[i].session_id = chat_messages[j].session_id
                    /\ chat_messages[i].timestamp < chat_messages[j].timestamp
    /\ \A oid \in DOMAIN chat_sessions :
          /\ ModelNeverAhead(StoredMessages(oid))
          /\ ModelNeverAhead(FindMessages(Str(oid)))

\* two exchanges of one session whose streams overlapped, both replies stored
C1_Witness ==
    \E e1, e2 \in Exchanges :
        /\ e1 # e2
        /\ session[e1].id = session[e2].id
        /\ \E u1 \in Written(e1, "user_message"), m1 \in Written(e1, "model_message"),
              u2 \in Written(e2, "user_message"), m2 \in Written(e2, "model_message") :
               u1 < u2 /\ u2 < m1 /\ m1 < m2

\* C2: when the model stream raises after a non-empty reply has been
\* accumulated, the exchange ends with exactly one model message of its own in
\* the session, holding the chunks produced before the error, in order.
C2_PartialReplyPersisted ==
    \A e \in Exchanges :
        (pc[e] = "stream_failed" /\ error[e] = ProviderError
            /\ ai_response_full[e] # "")
        => /\ Cardinality(Written(e, "model_message")) = 1
           /\ \A i \in Written(e, "model_message") :
                  chat_messages[i].parts = <<ai_response_full[e]>>

\* C3: when the caller disconnects after a non-empty reply has been
\* accumulated, the accumulated reply is stored as a model message of the
\* session.
C3_CancelledReplyPersisted ==
    \A e \in Exchanges :
        (pc[e] = "cancelled" /\ ai_response_full[e] # "")
        => \E i \in Written(e, "model_message") :
               chat_messages[i].parts = <<ai_response_full[e]>>

\* C4: when the model stream raises before it has produced a chunk, the
\* exchange has stored no model message and has not set last_updated, and its
\* user message is in the session.
C4_NoReplyOnEmptyFailure ==
    \A e \in Exchanges :
        (pc[e] = "stream_failed" /\ error[e] = ProviderError /\ n_chunks[e] = 0)
        => /\ Written(e, "model_message") = {}
           /\ Written(e, "touch") = {}
           /\ \E i \in Written(e, "user_message") :
                  /\ i \in DOMAIN chat_messages
                  /\ chat_messages[i].role = "user"
                  /\ chat_messages[i].parts = <<payload[e].message>>
                  /\ chat_messages[i].session_id = Str(session[e].id)
           /\ \A i \in DOMAIN chat_messages :
                  (chat_messages[i].session_id = Str(session[e].id)
                      /\ chat_messages[i].role = "model")
                  => \E x \in Exchanges \ {e} : i \in Written(x, "model_message")

C4_Witness ==
    \E e \in Exchanges :
        /\ pc[e] = "stream_failed" /\ error[e] = ProviderError /\ n_chunks[e] = 0
        /\ Len(StoredMessages(session[e].id)) > 1

\* an exchange ended by one of the validation errors
Rejected(e) == pc[e] = "error_stream" /\ error[e].type = "HTTPException"

\* C5: an exchange that is rejected with MissingPersona, InvalidIdentifier or
\* NotFound has written nothing, and the step that rejects it leaves
\* chat_sessions and chat_messages as they were.
C5_RejectionWritesNothing ==
    /\ [](\A e \in Exchanges : Rejected(e) => wlog[e] = <<>>)
    /\ [][\A e \in Exchanges :
            (pc[e] # "error_stream" /\ pc'[e] = "error_stream"
                /\ error'[e].type = "HTTPException")
            => /\ chat_sessions' = chat_sessions
               /\ chat_messages' = chat_messages]_vars

\* a new chat rejected for a persona that is not stored, in a store that
\* already holds a session and a message
C5_Witness ==
    \E e \in Exchanges :
        /\ Rejected(e) /\ error[e] = PersonaNotFound
        /\ chat_sessions # <<>> /\ chat_messages # <<>>

\* C6: a request that fails validation delivers no chunk at all to the caller.
C6_NoChunkOnRejection ==
    \A e \in Exchanges : Rejected(e) => out[e] = <<>>

\* sid names a session of somebody else
ForeignSession(u, sid) ==
    /\ IsValidObjectId(sid)
    /\ ObjectId(sid) \in DOMAIN chat_sessions
    /\ chat_sessions[ObjectId(sid)].user_id # u
\* sid names no session
MissingSession(sid) ==
    IsValidObjectId(sid) /\ ObjectId(sid) \notin DOMAIN chat_sessions

\* C7: a chat request or a listing request with the id of another user's
\* session ends as one for a session that does not exist: NotFound, nothing
\* written, no message returned; and every message and every update of
\* last_updated lands in a session of the user whose request wrote it.
C7_SessionsArePrivate ==
    /\ \A e \in Exchanges :
          (pc[e] # "idle"
              /\ (ForeignSession(user_id[e], payload[e].session_id)
                    \/ MissingSession(payload[e].session_id)))
          => /\ pc[e] = "error_stream"
             /\ error[e] \in {SessionNotFound, StoreError}
             /\ wlog[e] = <<>>
             /\ out[e] = <<ErrorText(error[e])>>
    /\ \A u \in Users, sid \in SessionIdInputs :
          ForeignSession(u, sid)
          => /\ GetChatSessionMessages(u, sid).error.status_code = "404"
             /\ GetChatSessionMessages(u, sid).body = <<>>
             /\ GetChatSessionMessages(u, sid) =
                   GetChatSessionMessages(u, HexId(Len(chat_sessions) + 1, FALSE))
    /\ \A e \in Exchanges :
          /\ \A i \in Written(e, "user_message") \cup Written(e, "model_message") :
                chat_sessions[ObjectId(chat_messages[i].session_id)].user_id
                    = user_id[e]
          /\ \A i \in Written(e, "touch") \cup Written(e, "create_session") :
                chat_sessions[i].user_id = user_id[e]

\* a chat request for another user's session, which holds messages
C7_Witness ==
    \E e \in Exchanges :
        /\ ForeignSession(user_id[e], payload[e].session_id)
        /\ pc[e] = "error_stream" /\ error[e] = SessionNotFound
        /\ StoredMessages(ObjectId(payload[e].session_id)) # <<>>
        /\ GetChatSessionMessages(chat_sessions[ObjectId(payload[e].session_id)].user_id,
                                  payload[e].session_id).body # <<>>

\* C8: a model stream runs with a stored persona only if the persona is public
\* or belongs to the requesting user.
C8_PersonaOwnership ==
    \A e \in Exchanges :
        (persona_details[e].kind = "custom"
            /\ pc[e] \in {"streaming", "save_model", "touch", "done",
                          "stream_failed", "cancelled"})
        => \/ persona_details[e].is_public
           \/ persona_details[e].user_id = user_id[e]

\* the update of last_updated failed after the model message was stored
TouchFailed(e) ==
    /\ Terminated(e)
    /\ error[e] = StoreError
    /\ Written(e, "model_message") # {}

\* C9: when the update of last_updated fails after the model message has been
\* stored, the caller has received the model's chunks and no error chunk, and
\* the model message is still in the session.
C9_TouchFailureSwallowed ==
    \A e \in Exchanges :
        TouchFailed(e)
        => /\ SentinelText \notin Range(out[e])
           /\ Len(out[e]) = n_chunks[e]
           /\ \A i \in Written(e, "model_message") :
                  chat_messages[i].parts = <<ai_response_full[e]>>

\* C10: the messages of a session listed by timestamp are in insertion order:
\* a message inserted later never carries an earlier timestamp.
C10_TimestampOrderIsInsertionOrder ==
    \A oid \in DOMAIN chat_sessions :
        /\ FindMessages(Str(oid)) = StoredMessages(oid)
        /\ \A i, j \in DOMAIN StoredMessages(oid) :
              i < j => StoredMessages(oid)[i].timestamp
                          <= StoredMessages(oid)[j].timestamp

\* the places in the write log of exchange e of its updates of last_updated
Touches(e) == {k \in DOMAIN wlog[e] : wlog[e][k].op = "touch"}

\* C11: among the store writes of an exchange, an update of last_updated
\* directly follows the insert of a non-empty model message of that exchange on
\* the same session; a step changes last_updated of a stored session only for
\* an exchange that has just stored its model message; and an exchange whose
\* accumulator is empty when the stream ends stores no model message and makes
\* no update, the step that ends its stream leaving chat_sessions as it was.
C11_TouchOnlyAfterModelMessage ==
    /\ [](\A e \in Exchanges :
            /\ \A k \in Touches(e) :
                  /\ k > 1
                  /\ wlog[e][k - 1].op = "model_message"
                  /\ chat_messages[wlog[e][k - 1].at].role = "model"
                  /\ chat_messages[wlog[e][k - 1].at].parts # <<"">>
                  /\ chat_messages[wlog[e][k - 1].at].session_id
                        = Str(wlog[e][k].at)
            /\ (pc[e] = "done" /\ ai_response_full[e] = "")
                  => Written(e, "model_message") = {} /\ Written(e, "touch") = {})
    /\ [][/\ \A i \in DOMAIN chat_sessions :
                chat_sessions'[i].last_updated # chat_sessions[i].last_updated
                => \E e \in Exchanges :
                      /\ pc[e] = "touch" /\ pc'[e] = "done"
                      /\ session[e].id = i
                      /\ wlog[e] # <<>>
                      /\ wlog[e][Len(wlog[e])].op = "model_message"
                      /\ chat_messages[wlog[e][Len(wlog[e])].at].parts # <<"">>
          /\ \A e \in Exchanges :
                (pc[e] = "streaming" /\ pc'[e] = "done")
                => /\ ai_response_full[e] = ""
                   /\ chat_sessions' = chat_sessions
                   /\ chat_messages' = chat_messages]_vars

\* one exchange has updated last_updated, another has ended its stream on
\* empty chunks only
C11_Witness ==
    \E e1, e2 \in Exchanges :
        /\ Touches(e1) # {}
        /\ chat_sessions[session[e1].id].last_updated = touch_time[e1]
        /\ pc[e2] = "done" /\ ai_response_full[e2] = "" /\ n_chunks[e2] > 0
        /\ session[e2].id = session[e1].id

\* exchange e has inserted a new session
Created(e) == Written(e, "create_session") # {}
\* the title stored for the session exchange e created
StoredTitle(e) == chat_sessions[session[e].id].title

\* C12: the title stored for a new session is the first message when that has
\* at most 30 characters, and otherwise its first 30 characters followed by
\* "...": a message of 30 characters gives a title of 30, one of 31 a title of
\* 33.
C12_TitleRule ==
    \A e \in Exchanges :
        Created(e)
        => LET m == payload[e].message
               t == StoredTitle(e)
           IN  /\ Len(m) <= 30 => t = m /\ Len(t) = Len(m)
               /\ Len(m) > 30
                    => /\ Len(t) = 33
                       /\ \A i \in 1..30 : SubSeq(t, i, i) = SubSeq(m, i, i)
                       /\ SubSeq(t, 31, 33) = "..."
               /\ t = session[e].title

\* sessions created from a message of 30 and from one of 31 characters
C12_Witness ==
    \E e1, e2 \in Exchanges :
        /\ Created(e1) /\ Len(payload[e1].message) = 30
        /\ Created(e2) /\ Len(payload[e2].message) = 31
        /\ Len(StoredTitle(e2)) = 33

\* a new chat started with this message has created its session
RoughDay(e) ==
    Created(e) /\ payload[e].message = "Hello there, I had a rough day"

\* C13 as stated: a new chat started with "Hello there, I had a rough day"
\* creates a session titled "Hello there, I had a rough ...".
C13_RoughDayTitleCut ==
    \A e \in Exchanges :
        RoughDay(e) => StoredTitle(e) = "Hello there, I had a rough ..."

\* C13, amended: "Hello there, I had a rough day" has exactly 30 characters,
\* so a new chat started with it creates a session whose title is the whole
\* message, without an ellipsis.
C13_RoughDayTitleWhole ==
    \A e \in Exchanges :
        RoughDay(e)
        => /\ StoredTitle(e) = "Hello there, I had a rough day"
           /\ Len(StoredTitle(e)) = 30

C13_Witness ==
    \E e \in Exchanges :
        /\ RoughDay(e) /\ pc[e] = "save_user"
        /\ message[e].parts = <<"Hello there, I had a rough day">>

\* the concatenation of a sequence of strings
RECURSIVE Concat(_)
Concat(chunks) ==
    IF chunks = <<>> THEN ""
    ELSE Concat(SubSeq(chunks, 1, Len(chunks) - 1)) \o chunks[Len(chunks)]

\* the caller of exchange e has been sent the chunks the model stream
\* produced, each once, in the order of the stream, and nothing else
DeliveredInOrder(e) ==
    /\ Len(out[e]) = n_chunks[e]
    /\ \A k \in 1..n_chunks[e] : out[e][k] \in Chunks(k)

\* C14: when the model stream has ended normally on a non-empty reply, the
\* caller has received its chunks in order, each once; the exchange stores at
\* most one model message and, once it has completed, exactly one, whose
\* content is the concatenation of the chunks.
C14_ReplyDeliveredAndStored ==
    \A e \in Exchanges :
        /\ (pc[e] \in {"save_model", "touch", "done"} /\ Concat(out[e]) # "")
              => /\ DeliveredInOrder(e)
                 /\ Cardinality(Written(e, "model_message")) <= 1
                 /\ \A i \in Written(e, "model_message") :
                       /\ chat_messages[i].role = "model"
                       /\ chat_messages[i].parts = <<Concat(out[e])>>
                       /\ chat_messages[i].session_id = Str(session[e].id)
        /\ (pc[e] = "done" /\ Concat(out[e]) # "")
              => Cardinality(Written(e, "model_message")) = 1

\* the chunks "I'm", " here", " for you." were delivered and stored as one
\* message
C14_Witness ==
    \E e \in Exchanges :
        /\ pc[e] = "done"
        /\ out[e] = <<"I'm", " here", " for you.">>
        /\ \E i \in Written(e, "model_message") :
               chat_messages[i].parts = <<"I'm here for you.">>
        /\ Written(e, "touch") # {}

\* C15: while an exchange is streaming, every chunk the model stream has
\* produced has been sent to the caller, the accumulator is the concatenation
\* of those chunks, and no model message of the exchange is stored; the step
\* that takes chunk k+1 from the stream starts with chunks 1..k delivered and
\* adds the new chunk to the output and to the accumulator in the same step;
\* and a model message is stored only with every chunk delivered.
C15_IncrementalDelivery ==
    /\ [](\A e \in Exchanges :
            /\ pc[e] = "streaming"
                  => /\ DeliveredInOrder(e)
                     /\ ai_response_full[e] = Concat(out[e])
                     /\ Written(e, "model_message") = {}
            /\ Written(e, "model_message") # {}
                  => /\ Len(out[e]) >= n_chunks[e]
                     /\ \A k \in 1..n_chunks[e] : out[e][k] \in Chunks(k))
    /\ [][\A e \in Exchanges :
            n_chunks'[e] # n_chunks[e]
            => /\ n_chunks'[e] = n_chunks[e] + 1
               /\ Len(out[e]) = n_chunks[e]
               /\ \E chunk \in Chunks(n_chunks'[e]) :
                     /\ out'[e] = Append(out[e], chunk)
                     /\ ai_response_full'[e] = ai_response_full[e] \o chunk
               /\ chat_messages' = chat_messages]_vars

\* two exchanges are streaming at once: one has been sent two chunks, the
\* other one
C15_Witness ==
    \E e1, e2 \in Exchanges :
        /\ pc[e1] = "streaming" /\ pc[e2] = "streaming"
        /\ out[e1] = <<"I'm", " here">> /\ ai_response_full[e1] = "I'm here"
        /\ out[e2] = <<"I'm">>

\* the model stream of exchange e raised
ProviderFailed(e) == pc[e] = "stream_failed" /\ error[e] = ProviderError

\* C16: when the model stream raises, the user message the exchange stored
\* stays in the store, and the caller has been sent the chunks produced before
\* the error followed by the error text as the last chunk; nothing is sent
\* after it, and no step removes or changes a stored message.
C16_SentinelLast ==
    /\ [](\A e \in Exchanges :
            ProviderFailed(e)
            => /\ \E i \in Written(e, "user_message") :
                      /\ i \in DOMAIN chat_messages
                      /\ chat_messages[i].role = "user"
                      /\ chat_messages[i].parts = <<payload[e].message>>
                      /\ chat_messages[i].session_id = Str(session[e].id)
               /\ Len(out[e]) = n_chunks[e] + 1
               /\ out[e][Len(out[e])] = SentinelText
               /\ \A k \in 1..n_chunks[e] : out[e][k] \in Chunks(k))
    /\ [][/\ Len(chat_messages') >= Len(chat_messages)
          /\ \A i \in DOMAIN chat_messages : chat_messages'[i] = chat_messages[i]
          /\ \A e \in Exchanges :
                pc[e] = "stream_failed"
                => pc'[e] = "stream_failed" /\ out'[e] = out[e]]_vars

\* the stream raised after two chunks, and another exchange went on to store
\* messages in the same session
C16_Witness ==
    \E e1, e2 \in Exchanges :
        /\ e1 # e2
        /\ ProviderFailed(e1) /\ n_chunks[e1] = 2
        /\ out[e1] = <<"I'm", " here", SentinelText>>
        /\ session[e2].id = session[e1].id
        /\ \E i \in Written(e1, "user_message"), j \in Written(e2, "model_message") :
               i < j

\* an exchange ended by an error or by the caller's disconnect
Failed(e) == pc[e] \in {"error_stream", "stream_failed", "cancelled"}

\* C17: an exchange creates at most one session, stores at most one user
\* message, at most one model message and makes at most one update of
\* last_updated; once its model stream has been started it has stored exactly
\* one user message; the stream is started once, from the saved user message,
\* and its chunk count never goes back; the step in which an exchange fails
\* writes nothing, and a failed exchange stays failed and writes nothing more.
C17_NoRetries ==
    /\ [](\A e \in Exchanges :
            /\ \A op \in {"create_session", "user_message", "model_message",
                          "touch"} :
                  Cardinality({k \in DOMAIN wlog[e] : wlog[e][k].op = op}) <= 1
            /\ pc[e] \in {"streaming", "save_model", "touch", "done",
                          "stream_failed", "cancelled"}
                  => Cardinality(Written(e, "user_message")) = 1)
    /\ [](/\ Len(chat_messages) =
                Cardinality(UNION {Written(e, "user_message")
                                     \cup Written(e, "model_message") :
                                   e \in Exchanges})
          /\ Len(chat_sessions) =
                Cardinality(UNION {Written(e, "create_session") :
                                   e \in Exchanges}))
    /\ [][\A e \in Exchanges :
            /\ (pc'[e] = "streaming" /\ pc[e] # "streaming")
                  => pc[e] = "save_user" /\ n_chunks[e] = 0 /\ out[e] = <<>>
            /\ n_chunks'[e] >= n_chunks[e]
            /\ (Failed(e)' /\ ~Failed(e))
                  => /\ wlog'[e] = wlog[e]
                     /\ chat_sessions' = chat_sessions
                     /\ chat_messages' = chat_messages
            /\ Failed(e)
                  => /\ pc'[e] = pc[e]
                     /\ wlog'[e] = wlog[e]]_vars

\* one exchange failed at the update of last_updated, after three writes;
\* another completed on the same session
C17_Witness ==
    \E e1, e2 \in Exchanges :
        /\ pc[e1] = "stream_failed" /\ error[e1] = StoreError
        /\ Len(wlog[e1]) = 3 /\ Written(e1, "model_message") # {}
        /\ pc[e2] = "done" /\ Len(wlog[e2]) = 3
        /\ session[e2].id = session[e1].id

\* exchange e took the existing-session path
OnExistingPath(e) == Truthy(payload[e].session_id)

\* C18: on the existing-session path, whatever the spelling of the session_id,
\* the history read for the model is every message stored in the session, in
\* timestamp order, and the history handed to the model is that followed by
\* the new user message.
C18_HistoryIsWholeSession ==
    [][\A e \in Exchanges :
         /\ (pc[e] = "load_history" /\ pc'[e] = "save_user")
               => chat_history'[e] = FindMessages(Str(session[e].id))
         /\ (pc[e] = "save_user" /\ pc'[e] = "streaming" /\ OnExistingPath(e))
               => /\ chat_history'[e] = Append(chat_history[e], message[e])
                  /\ message[e].role = "user"
                  /\ message[e].parts = <<payload[e].message>>]_vars

\* the request of exchange e carries a session_id that is present and is a
\* valid ObjectId string
HasValidSessionId(e) ==
    Truthy(payload[e].session_id) /\ IsValidObjectId(payload[e].session_id)

\* C19: a request whose session_id is present and structurally valid creates
\* no session, whatever its persona_id, and is served with the persona stored
\* in the session it names; a request whose session_id is absent or malformed
\* fails with MissingPersona, writing nothing, when it has no persona_id, and
\* otherwise creates at most one session, and exactly one, owned by the
\* requesting user and carrying the persona_id of the request, once its
\* persona has resolved and the insert has succeeded; a step adds a session
\* only for such a request.
C19_RoutingBySessionId ==
    /\ [](\A e \in Exchanges :
            pc[e] # "idle"
            => IF HasValidSessionId(e)
               THEN /\ Written(e, "create_session") = {}
                    /\ pc[e] # "create_session"
                    /\ pc[e] \in {"load_history", "save_user", "streaming"}
                          => /\ session[e].id = ObjectId(payload[e].session_id)
                             /\ session[e].persona_id =
                                   chat_sessions[session[e].id].persona_id
                             /\ persona_details[e] =
                                   GetPersonaDetails(session[e].persona_id).details
                    /\ pc[e] = "error_stream" => error[e] # MissingPersonaErr
               ELSE /\ ~Truthy(payload[e].persona_id)
                          => /\ pc[e] = "error_stream"
                             /\ error[e] = MissingPersonaErr
                             /\ wlog[e] = <<>>
                    /\ Truthy(payload[e].persona_id)
                          => /\ Cardinality(Written(e, "create_session")) <= 1
                             /\ error[e] # MissingPersonaErr
                             /\ pc[e] \in {"save_user", "streaming"}
                                   => /\ Written(e, "create_session")
                                            = {session[e].id}
                                      /\ chat_sessions[session[e].id].user_id
                                            = user_id[e]
                                      /\ chat_sessions[session[e].id].persona_id
                                            = payload[e].persona_id
                             /\ (pc[e] = "error_stream"
                                    /\ Written(e, "create_session") = {})
                                   => error[e] \in {InvalidPersonaErr,
                                                    PersonaNotFound, StoreError})
    /\ [][/\ Len(chat_sessions') \in {Len(chat_sessions), Len(chat_sessions) + 1}
          /\ Len(chat_sessions') = Len(chat_sessions) + 1
                => \E e \in Exchanges :
                      /\ ~HasValidSessionId(e)
                      /\ Truthy(payload[e].persona_id)
                      /\ pc[e] = "create_session"
                      /\ chat_sessions'[Len(chat_sessions')].user_id = user_id[e]]_vars

\* a request naming a stored session in upper-case spelling and carrying the
\* persona_id of a catalog character is served with the session's stored
\* persona; a request with a malformed session_id has created a session
C19_Witness ==
    \E e1, e2 \in Exchanges :
        /\ HasValidSessionId(e2) /\ payload[e2].session_id.upper
        /\ payload[e2].persona_id = Doraemon
        /\ pc[e2] = "streaming"
        /\ persona_details[e2].kind = "custom"
        /\ payload[e1].session_id = MalformedId
        /\ Written(e1, "create_session") = {session[e2].id}
        /\ Len(chat_sessions) = 1

\* C20: no step removes a session or changes the user_id, title or persona_id
\* of a stored session; a step that changes a stored session changes only its
\* last_updated, and is the update of an exchange that belongs to that
\* session, every other session staying as it was.
C20_SessionFrame ==
    [][/\ Len(chat_sessions') >= Len(chat_sessions)
       /\ \A i \in DOMAIN chat_sessions :
             /\ chat_sessions'[i].user_id = chat_sessions[i].user_id
             /\ chat_sessions'[i].title = chat_sessions[i].title
             /\ chat_sessions'[i].persona_id = chat_sessions[i].persona_id
             /\ chat_sessions'[i] # chat_sessions[i]
                   => /\ \E e \in Exchanges :
                            /\ pc[e] = "touch" /\ pc'[e] = "done"
                            /\ session[e].id = i
                            /\ chat_sessions'[i].last_updated = touch_time[e]
                      /\ \A j \in DOMAIN chat_sessions \ {i} :
                            chat_sessions'[j] = chat_sessions[j]]_vars

\* two sessions of one user: an exchange has updated last_updated of the
\* first, and an exchange of the second has failed in its stream
C20_Witness ==
    \E e1, e2 \in Exchanges :
        /\ Len(chat_sessions) = 2
        /\ session[e1].id # session[e2].id
        /\ chat_sessions[session[e1].id].user_id
              = chat_sessions[session[e2].id].user_id
        /\ pc[e1] = "done" /\ Written(e1, "touch") = {session[e1].id}
        /\ chat_sessions[session[e1].id].last_updated = touch_time[e1]
        /\ chat_sessions[session[e1].id].title = Title(payload[e1].message)
        /\ pc[e2] = "stream_failed" /\ Written(e2, "create_session") # {}

====
